---------------------------- MODULE Spec2Model ----------------------------
(***************************************************************************)
(* A model of the link harvesting and rewriting scripts of the site        *)
(* archive: download_images.py, download_youtube_videos.py,                *)
(* download_videos.py, download_videos_gdown.py and update_video_links.py. *)
(*                                                                         *)
(* A document is a sequence of links.  The regular expressions of the      *)
(* scripts delimit a link by its quotes, parentheses or white space, so a  *)
(* link is the unit on which every pattern matches or fails; the text      *)
(* between the links never matches and is left out.  The characters of a   *)
(* URL or identifier are kept as a sequence of symbols, so that "is a      *)
(* prefix of" and "equal up to letter case" are computed, not assumed.     *)
(***************************************************************************)
EXTENDS Integers, Sequences, FiniteSets, TLC

VARIABLES
    rewriter,   \* the rewriter under test: "image", "youtube" or "drive"
    document,   \* the html_content handed to it
    mapping,    \* the mapping handed to it, in dict order
    results,    \* what it returned: first for document, then for its own output
    tree,       \* the html files under base_dir: file -> content
    tree0,      \* history: the tree before the first run
    dirOf,      \* the directory each html file lies in
    base_dir,   \* the root directory of the tree exists
    perm,       \* what open() allows on each html file: "rw", "r" or "none"
    written,    \* history: the html files written in the present run
    disk,       \* the asset files: [dir, file, asset], one per dir and file
    script,     \* the script that is run on the tree
    pc,         \* where its main stands
    locals,     \* the local variables of its main
    calls,      \* history: the identities fetch was called for in the present run
    last,       \* history: what the last fetch call found and did
    ran,        \* history: the scripts that have run to their end
    failed      \* history: some transport call has failed

rwVars == <<rewriter, document, mapping, results>>

runVars == <<tree, tree0, dirOf, base_dir, perm, written, disk, script, pc, locals, calls, last, ran, failed>>

(* ------------------------------ bounds --------------------------------- *)

\* Links per document handed to a rewriter.
MaxDocLen == 2

\* Entries of a mapping handed to a rewriter.
MaxMap == 2

(* --------------------------- text helpers ------------------------------ *)

\* str.lower() / re.IGNORECASE on one symbol.
Lower(c) ==
    CASE c = "X" -> "x"
      [] c = "A" -> "a"
      [] c = "Y" -> "y"
      [] c = ".PNG" -> ".png"
      [] OTHER -> c

LowerStr(s) == [i \in DOMAIN s |-> Lower(s[i])]

\* str.startswith
StartsWith(s, p) == Len(p) <= Len(s) /\ SubSeq(s, 1, Len(p)) = p

\* Sequences over S of length at most n.
SeqUpTo(S, n) == UNION {[1..k -> S] : k \in 0..n}

\* Sequences over S of length at most n without repetition (the keys of a dict
\* in insertion order).
InjSeqUpTo(S, n) == {s \in SeqUpTo(S, n) : \A i, j \in DOMAIN s : i # j => s[i] # s[j]}

Range(s) == {s[i] : i \in DOMAIN s}

\* All orders in which a set can be listed.
ListingsOf(S) == {s \in [1..Cardinality(S) -> S] : Range(s) = S}

(* ------------------------- download_images.py -------------------------- *)

\* The paths of the image URLs of the model; "X" is "x" in another letter case
\* and <<"x", "y">> extends <<"x">>.
Bodies == {<<"x">>, <<"X">>, <<"x", "y">>}

NoFile == [stem |-> "", n |-> 0, ext |-> ""]

\* The text with which a reference starts, by the way it is written.
SchemeText(scheme) ==
    CASE scheme = "https" -> "https://"
      [] scheme = "http"  -> "http://"
      [] scheme = "rel"   -> "//"
      [] scheme = "data"  -> "data:"
      [] OTHER            -> "images/"

\* The text of a remote reference.
UrlText(u) == <<SchemeText(u.scheme)>> \o u.body

\* A link of an HTML document in one of the contexts the image patterns know:
\* <img src>, <source srcset>, background-image: url(), <link href>, and
\* <a href>, which only the replacement patterns match.
\* closed: the quote or parenthesis that ends the value is there.
RemoteLink(ctx, scheme, body) ==
    [ctx |-> ctx, scheme |-> scheme, body |-> body, file |-> NoFile, closed |-> TRUE]

\* A link at the end of a document that breaks off inside the value.
TruncatedLink(ctx, scheme, body) ==
    [ctx |-> ctx, scheme |-> scheme, body |-> body, file |-> NoFile, closed |-> FALSE]

\* f'images/{local_filename}' written where a URL was.
LocalLink(ctx, file) ==
    [ctx |-> ctx, scheme |-> "local", body |-> <<>>, file |-> file, closed |-> TRUE]

IsLocal(t) == t.scheme = "local"

\* The identity under which extraction reports a reference.
Url(scheme, body) == [scheme |-> scheme, body |-> body]

\* The four extraction patterns, by the context each one matches.
ExtractContexts == {"img_src", "source_srcset", "css_bg", "link_href"}

\* The filter without its branch for values that start with '//'.
external_image_no_rel(t) ==
    IF t.scheme \in {"http", "https"} THEN {[scheme |-> t.scheme, body |-> t.body]} ELSE {}

\* The filter of extract_image_links on one matched value: the URL it appends,
\* in a set that is empty when the value is skipped.
external_image(t) ==
    IF t.scheme \in {"http", "https"} THEN {Url(t.scheme, t.body)}
    ELSE IF t.scheme = "rel" THEN {Url("https", t.body)}
    ELSE {}

\* external_images with patterns that do not ask for the closing quote.
RECURSIVE external_images_unclosed(_)
external_images_unclosed(html_content) ==
    IF html_content = <<>> THEN <<>>
    ELSE LET t == Head(html_content)
             here == IF t.ctx \in ExtractContexts /\ external_image(t) # {}
                     THEN <<CHOOSE u \in external_image(t) : TRUE>>
                     ELSE <<>>
         IN  here \o external_images_unclosed(Tail(html_content))

\* The list image_data filtered to external_images, before list(set(...)).
\* Every pattern ends with the closing quote or parenthesis of the value.
RECURSIVE external_images(_)
external_images(html_content) ==
    IF html_content = <<>> THEN <<>>
    ELSE LET t == Head(html_content)
             here == IF t.ctx \in ExtractContexts /\ t.closed /\ external_image(t) # {}
                     THEN <<CHOOSE u \in external_image(t) : TRUE>>
                     ELSE <<>>
         IN  here \o external_images(Tail(html_content))

\* extract_image_links returning external_images without list(set(...)).
extract_image_links_no_set(html_content) == {external_images(html_content)}

\* extract_image_links: list(set(external_images)) promises no order, so every
\* listing of the set is a possible return value.
extract_image_links(html_content) == ListingsOf(Range(external_images(html_content)))

ImageExtensions == <<".jpg", ".jpeg", ".png", ".gif", ".svg", ".webp", ".ico">>

\* urlparse(url).path: what stands before the "?" of the query.
RECURSIVE url_path(_)
url_path(body) ==
    IF body = <<>> \/ Head(body) = "?" THEN <<>>
    ELSE <<Head(body)>> \o url_path(Tail(body))

\* get_image_extension: the first extension of the list found in the lower-cased
\* path, else .jpg for a Google host, else .png.
get_image_extension(url) ==
    LET path == Range(LowerStr(url_path(url.body)))
        found == {k \in DOMAIN ImageExtensions : ImageExtensions[k] \in path}
    IN  IF found # {}
        THEN ImageExtensions[CHOOSE k \in found : \A j \in found : k <= j]
        ELSE IF Range(url.body) \cap {"googleusercontent.com", "drive.google.com"} # {}
             THEN ".jpg"
             ELSE ".png"

\* A filename that leaves the counter out.
image_filename_no_counter(idx, url) ==
    [stem |-> "image", n |-> 1, ext |-> get_image_extension(url)]

\* filename = f'image_{idx}{ext}'
image_filename(idx, url) == [stem |-> "image", n |-> idx, ext |-> get_image_extension(url)]

\* The replacement pattern that can match a link, by the attribute or
\* function it is written in.
PatternOf(ctx) ==
    CASE ctx = "img_src"       -> "src"
      [] ctx = "source_srcset" -> "srcset"
      [] ctx = "css_bg"        -> "url"
      [] OTHER                 -> "href"

ImagePatterns == <<"src", "srcset", "url", "href">>

\* re.findall(pattern, modified, re.IGNORECASE) on one link: the escaped URL
\* must fill the whole quoted or parenthesised value, in any letter case.
image_pattern_matches(t, url, p) ==
    /\ ~IsLocal(t)
    /\ t.closed
    /\ PatternOf(t.ctx) = p
    /\ LowerStr(UrlText(t)) = LowerStr(UrlText(url))

\* image_sub as a replacement of the URL wherever a value starts with it.
image_sub_prefix(t, url, file, p) ==
    IF ~IsLocal(t) /\ PatternOf(t.ctx) = p /\ StartsWith(UrlText(t), UrlText(url))
    THEN LocalLink(t.ctx, file)
    ELSE t

\* lambda m: m.group(0).replace(url, local_path): str.replace is case sensitive.
image_sub(t, url, file, p) ==
    IF image_pattern_matches(t, url, p) /\ UrlText(t) = UrlText(url)
    THEN LocalLink(t.ctx, file)
    ELSE t

\* One pass of the inner loop of replace_image_links: one pattern of one URL.
image_apply_pattern(acc, url, file, p) ==
    LET count == Cardinality({i \in DOMAIN acc.modified :
                                 image_pattern_matches(acc.modified[i], url, p)})
    IN  IF count > 0
        THEN [modified |-> [i \in DOMAIN acc.modified |->
                               image_sub(acc.modified[i], url, file, p)],
              replacements |-> acc.replacements + count]
        ELSE acc

RECURSIVE image_apply_patterns(_, _, _, _)
image_apply_patterns(acc, url, file, ps) ==
    IF ps = <<>> THEN acc
    ELSE image_apply_patterns(image_apply_pattern(acc, url, file, Head(ps)),
                              url, file, Tail(ps))

RECURSIVE image_apply_mapping(_, _)
image_apply_mapping(acc, image_mapping) ==
    IF image_mapping = <<>> THEN acc
    ELSE LET e == Head(image_mapping)
         IN  image_apply_mapping(image_apply_patterns(acc, e.url, e.file, ImagePatterns),
                                 Tail(image_mapping))

\* replace_image_links(html_content, image_mapping, rel_dir): rel_dir is unused.
replace_image_links(html_content, image_mapping) ==
    image_apply_mapping([modified |-> html_content, replacements |-> 0], image_mapping)

(* ---------------------- download_youtube_videos.py --------------------- *)

\* The video and file identifiers of the model: <<"a", "b">> extends <<"a">>,
\* <<"A">> is <<"a">> in another letter case, <<"b">> is unrelated to both.
Ids == {<<"a">>, <<"a", "b">>, <<"A">>, <<"b">>}

\* A video link: the URL form it is written in and the identifier in it.
\* quoted: the URL is enclosed in quotes; bare: it is written without
\* "https://", so that the quote stands right before the host name.
VideoLink(form, id, quoted, bare) ==
    [form |-> form, id |-> id, quoted |-> quoted, bare |-> bare, stem |-> "", n |-> 0]

\* f'videos/{stem}_{n}.mp4' written where a URL was.
LocalVideo(stem, n, quoted) ==
    [form |-> "local", id |-> <<>>, quoted |-> quoted, bare |-> FALSE, stem |-> stem, n |-> n]

\* The file f'{stem}_{n}.mp4' of a videos folder.
video_filename(stem, n) == [stem |-> stem, n |-> n, ext |-> ".mp4"]

YouTubePatterns == <<"watch", "embed", "short">>

\* The identifiers one extraction pattern finds, in document order.
RECURSIVE ids_of_form(_, _)
ids_of_form(html_content, form) ==
    IF html_content = <<>> THEN <<>>
    ELSE (IF Head(html_content).form = form THEN <<Head(html_content).id>> ELSE <<>>)
         \o ids_of_form(Tail(html_content), form)

\* The identifiers all patterns find: pattern after pattern.
RECURSIVE ids_of_forms(_, _)
ids_of_forms(html_content, forms) ==
    IF forms = <<>> THEN <<>>
    ELSE ids_of_form(html_content, Head(forms)) \o ids_of_forms(html_content, Tail(forms))

\* A list without its repeated elements, the first of each kept.
RECURSIVE unique(_)
unique(s) ==
    IF s = <<>> THEN <<>>
    ELSE LET r == unique(SubSeq(s, 1, Len(s) - 1))
             x == s[Len(s)]
         IN  IF x \in Range(r) THEN r ELSE Append(r, x)

\* extract_youtube_links: the identifiers of unique_videos, in order.
extract_youtube_links(html_content) == unique(ids_of_forms(html_content, YouTubePatterns))

\* One pattern of replace_youtube_links on one link: the identifier is put
\* into the pattern as it is and followed by [^"'<>\s]*, under re.IGNORECASE.
youtube_pattern_matches(t, video_id, p) ==
    /\ t.form = p
    /\ StartsWith(LowerStr(t.id), LowerStr(video_id))

\* re.sub(pattern, local_path, modified_content) and the test new_content !=
\* modified_content.
youtube_apply_pattern(acc, video_id, local_path, p) ==
    LET new_content == [i \in DOMAIN acc.modified |->
                           IF youtube_pattern_matches(acc.modified[i], video_id, p)
                           THEN LocalVideo("youtube", local_path, acc.modified[i].quoted)
                           ELSE acc.modified[i]]
    IN  IF new_content # acc.modified
        THEN [modified |-> new_content, replacements |-> acc.replacements + 1]
        ELSE acc

RECURSIVE youtube_apply_patterns(_, _, _, _)
youtube_apply_patterns(acc, video_id, local_path, ps) ==
    IF ps = <<>> THEN acc
    ELSE youtube_apply_patterns(youtube_apply_pattern(acc, video_id, local_path, Head(ps)),
                                video_id, local_path, Tail(ps))

RECURSIVE youtube_apply_mapping(_, _)
youtube_apply_mapping(acc, video_id_mapping) ==
    IF video_id_mapping = <<>> THEN acc
    ELSE LET e == Head(video_id_mapping)
         IN  youtube_apply_mapping(youtube_apply_patterns(acc, e.id, e.n, YouTubePatterns),
                                   Tail(video_id_mapping))

replace_youtube_links(html_content, video_id_mapping) ==
    youtube_apply_mapping([modified |-> html_content, replacements |-> 0], video_id_mapping)

(* ------------------------- update_video_links.py ----------------------- *)

DrivePatterns == <<"full_url", "open_url", "docs_url", "uc_amp", "uc_url">>

\* re.finditer(pattern, html_content) on one link: the first three patterns
\* start with https://, the two uc patterns with the host name.
drive_pattern_finds(t, p) ==
    /\ t.form = p
    /\ p \in {"full_url", "open_url", "docs_url"} => ~t.bare

RECURSIVE drive_ids_of_pattern(_, _)
drive_ids_of_pattern(html_content, p) ==
    IF html_content = <<>> THEN <<>>
    ELSE (IF drive_pattern_finds(Head(html_content), p)
          THEN <<Head(html_content).id>> ELSE <<>>)
         \o drive_ids_of_pattern(Tail(html_content), p)

RECURSIVE drive_ids_of_patterns(_, _)
drive_ids_of_patterns(html_content, ps) ==
    IF ps = <<>> THEN <<>>
    ELSE drive_ids_of_pattern(html_content, Head(ps))
         \o drive_ids_of_patterns(html_content, Tail(ps))

\* file_ids of extract_and_replace_drive_links: unique, in order of finding.
drive_file_ids(html_content) == unique(drive_ids_of_patterns(html_content, DrivePatterns))

\* full_pattern on one link: quote, pattern with the identifier put in, quote.
\* The first three patterns end in [^"']*, so any link whose identifier starts
\* with file_id matches; the uc patterns end with the identifier and have no
\* scheme, so the quotes must stand right around host name and identifier.
drive_full_pattern_matches(t, file_id, p) ==
    /\ t.form = p
    /\ t.quoted
    /\ IF p \in {"full_url", "open_url", "docs_url"}
       THEN ~t.bare /\ StartsWith(t.id, file_id)
       ELSE t.bare /\ t.id = file_id

drive_apply_pattern(acc, file_id, i, p) ==
    LET new_content == [k \in DOMAIN acc.modified |->
                           IF drive_full_pattern_matches(acc.modified[k], file_id, p)
                           THEN LocalVideo("video", i, TRUE)
                           ELSE acc.modified[k]]
    IN  IF new_content # acc.modified
        THEN [modified |-> new_content, replacements |-> acc.replacements + 1]
        ELSE acc

RECURSIVE drive_apply_patterns(_, _, _, _)
drive_apply_patterns(acc, file_id, i, ps) ==
    IF ps = <<>> THEN acc
    ELSE drive_apply_patterns(drive_apply_pattern(acc, file_id, i, Head(ps)),
                              file_id, i, Tail(ps))

\* for i, file_id in enumerate(file_ids, 1), from position i on.
RECURSIVE drive_apply_ids(_, _, _)
drive_apply_ids(acc, file_ids, i) ==
    IF i > Len(file_ids) THEN acc
    ELSE drive_apply_ids(drive_apply_patterns(acc, file_ids[i], i, DrivePatterns),
                         file_ids, i + 1)

extract_and_replace_drive_links(html_content) ==
    drive_apply_ids([modified |-> html_content, replacements |-> 0],
                    drive_file_ids(html_content), 1)

(* ----------------------- download_panopto_videos.py -------------------- *)

\* What stands between ".aspx" and the identifier in a Panopto URL, as it is
\* written in the document: plain, percent-encoded once or twice, after
\* another parameter, after another parameter with & written &amp;, or with
\* another parameter name.
Marks == {"?id=", "%3Fid%3D", "%253Fid%253D", "?t=1&id=", "?t=1&amp;id=", "?tid="}

\* urllib.parse.unquote on a mark.
unquote(mark) ==
    CASE mark = "%3Fid%3D" -> "?id="
      [] mark = "%253Fid%253D" -> "%3Fid%3D"
      [] OTHER -> mark

\* The symbols [a-f0-9\-] under re.IGNORECASE.
HexSymbols == {"a", "A", "b"}

\* The symbols identifiers are written with; "g" is no hexadecimal digit.
PanoptoSymbols == HexSymbols \cup {"g"}

\* The longest prefix of s made of hexadecimal symbols: ([a-f0-9\-]+).
RECURSIVE hex_prefix(_)
hex_prefix(s) ==
    IF s = <<>> \/ Head(s) \notin HexSymbols THEN <<>>
    ELSE <<Head(s)>> \o hex_prefix(Tail(s))

\* A Panopto link: form "redirect" is a www.google.com/url?q= link around a
\* Panopto URL, "viewer" and "embed" are direct URLs.  text is what follows
\* the mark; followed: an & or &amp; and more parameters follow it.
PanoptoLink(form, mark, text, followed) ==
    [form |-> form, mark |-> mark, text |-> text, followed |-> followed, stem |-> "", n |-> 0]

\* f'videos/{local_filename}' written where a URL was.
LocalPanopto(n) ==
    [form |-> "local", mark |-> "", text |-> <<>>, followed |-> FALSE, stem |-> "panopto",
     n |-> n]

\* re.search(r'[?&]id=([a-f0-9\-]+)') on a URL with this mark and text.
id_search(mark, text) ==
    IF mark \in {"?id=", "?t=1&id="} THEN hex_prefix(text) ELSE <<>>

\* extract_panopto_id(url): unquote, then the search; <<>> stands for None.
extract_panopto_id(mark, text) == id_search(unquote(mark), text)

\* What ([^&"'<>\s]+) keeps of a mark: the text up to the first &.
cut_at_amp(mark) == IF mark \in {"?t=1&id=", "?t=1&amp;id="} THEN "?t=1" ELSE mark

\* The URLs of all_urls that the Google redirect pattern contributes: the
\* match ends before the first & and is decoded once before it is kept.
RECURSIVE redirect_urls(_)
redirect_urls(html_content) ==
    IF html_content = <<>> THEN <<>>
    ELSE LET t == Head(html_content)
         IN  (IF t.form = "redirect"
              THEN <<[mark |-> unquote(cut_at_amp(t.mark)),
                      text |-> IF cut_at_amp(t.mark) = t.mark THEN t.text ELSE <<>>]>>
              ELSE <<>>) \o redirect_urls(Tail(html_content))

\* The URLs the direct pattern contributes: Viewer.aspx or Embed.aspx followed
\* by a literal "?", also inside a redirect link that is not encoded.
RECURSIVE direct_urls(_)
direct_urls(html_content) ==
    IF html_content = <<>> THEN <<>>
    ELSE LET t == Head(html_content)
         IN  (IF t.form \in {"redirect", "viewer", "embed"}
                 /\ t.mark \in {"?id=", "?t=1&id=", "?t=1&amp;id=", "?tid="}
              THEN <<[mark |-> t.mark, text |-> t.text]>>
              ELSE <<>>) \o direct_urls(Tail(html_content))

\* panopto_data: the identifier of every URL of all_urls that has one.
RECURSIVE panopto_data(_)
panopto_data(all_urls) ==
    IF all_urls = <<>> THEN <<>>
    ELSE LET video_id == extract_panopto_id(Head(all_urls).mark, Head(all_urls).text)
         IN  (IF video_id # <<>> THEN <<video_id>> ELSE <<>>) \o panopto_data(Tail(all_urls))

\* extract_panopto_links without the removal of duplicates.
extract_panopto_links_all(html_content) ==
    panopto_data(redirect_urls(html_content) \o direct_urls(html_content))

\* extract_panopto_links: the identifiers of unique_data, in order.
extract_panopto_links(html_content) ==
    unique(panopto_data(redirect_urls(html_content) \o direct_urls(html_content)))

\* What is left of a redirect link whose inner Panopto URL alone was replaced.
RedirectToLocal(n) ==
    [form |-> "redirect_local", mark |-> "", text |-> <<>>, followed |-> FALSE,
     stem |-> "panopto", n |-> n]

PanoptoPatterns == <<"google_redirect_pattern", "direct_pattern">>

\* One pattern of replace_panopto_links on one link, under re.IGNORECASE.  The
\* redirect pattern takes "?" or "%3F" and anything else that is no & before
\* "id", and wants an & after the identifier; the direct pattern wants "?id="
\* right after ".aspx".  Both end in a character class after the identifier.
panopto_pattern_matches(t, video_id, p) ==
    /\ StartsWith(LowerStr(t.text), LowerStr(video_id))
    /\ IF p = "google_redirect_pattern"
       THEN t.form = "redirect" /\ t.followed /\ t.mark \in {"?id=", "%3Fid%3D", "?tid="}
       ELSE t.form \in {"redirect", "viewer", "embed"} /\ t.mark = "?id="

\* re.sub(pattern, local_path, modified) on one link.
panopto_sub(t, n, p) ==
    IF p = "direct_pattern" /\ t.form = "redirect" THEN RedirectToLocal(n) ELSE LocalPanopto(n)

\* matches = re.findall(...); if matches: re.sub(...); replacements += len(matches)
panopto_apply_pattern(acc, video_id, n, p) ==
    LET matches == {i \in DOMAIN acc.modified :
                       panopto_pattern_matches(acc.modified[i], video_id, p)}
    IN  IF matches # {}
        THEN [modified |-> [i \in DOMAIN acc.modified |->
                               IF i \in matches THEN panopto_sub(acc.modified[i], n, p)
                               ELSE acc.modified[i]],
              replacements |-> acc.replacements + Cardinality(matches)]
        ELSE acc

RECURSIVE panopto_apply_patterns(_, _, _, _)
panopto_apply_patterns(acc, video_id, n, ps) ==
    IF ps = <<>> THEN acc
    ELSE panopto_apply_patterns(panopto_apply_pattern(acc, video_id, n, Head(ps)),
                                video_id, n, Tail(ps))

RECURSIVE panopto_apply_mapping(_, _)
panopto_apply_mapping(acc, video_mapping) ==
    IF video_mapping = <<>> THEN acc
    ELSE LET e == Head(video_mapping)
         IN  panopto_apply_mapping(panopto_apply_patterns(acc, e.id, e.n, PanoptoPatterns),
                                   Tail(video_mapping))

replace_panopto_links(html_content, video_mapping) ==
    panopto_apply_mapping([modified |-> html_content, replacements |-> 0], video_mapping)

(* ------------------ the rewriters as functions: SpecRewrite ------------ *)

\* The links of the documents handed to replace_image_links.
ImageLinks ==
    {RemoteLink(ctx, scheme, body) :
        ctx \in {"img_src", "css_bg", "a_href"}, scheme \in {"https", "rel"}, body \in Bodies}

\* The URLs extraction can report for them.
ImageUrls == {Url("https", body) : body \in Bodies}

\* image_mapping as main builds it: url -> image_{idx}{ext}, idx the position.
ImageMappings ==
    {[i \in DOMAIN order |-> [url |-> order[i], file |-> image_filename(i, order[i])]] :
        order \in InjSeqUpTo(ImageUrls, MaxMap)}

YouTubeLinks ==
    {VideoLink(form, id, TRUE, FALSE) : form \in Range(YouTubePatterns), id \in Ids}

\* The elements of s at the positions in P, in their order.
RECURSIVE Pick(_, _)
Pick(s, P) ==
    IF s = <<>> THEN <<>>
    ELSE LET r == Pick(SubSeq(s, 1, Len(s) - 1), P)
         IN  IF Len(s) \in P THEN Append(r, s[Len(s)]) ELSE r

\* video_id_mapping as process_html_file builds it for a document: the i-th
\* extracted id -> videos/youtube_{i}.mp4, for the ids whose download succeeded.
YouTubeMappings(html_content) ==
    LET ids == extract_youtube_links(html_content)
        all == [i \in DOMAIN ids |-> [id |-> ids[i], n |-> i]]
    IN  {Pick(all, P) : P \in SUBSET DOMAIN ids}

\* Drive links: the three https forms, quoted or not, and the two uc forms in
\* quotes, with and without the scheme.
DriveLinks ==
    {VideoLink(form, id, quoted, FALSE) :
        form \in {"full_url", "open_url", "docs_url"}, id \in Ids, quoted \in BOOLEAN}
    \cup {VideoLink(form, id, TRUE, bare) :
        form \in {"uc_amp", "uc_url"}, id \in Ids, bare \in BOOLEAN}

InitRewrite ==
    /\ rewriter \in {"image", "youtube", "drive"}
    /\ document \in SeqUpTo(CASE rewriter = "image" -> ImageLinks
                               [] rewriter = "youtube" -> YouTubeLinks
                               [] OTHER -> DriveLinks, MaxDocLen)
    /\ mapping \in CASE rewriter = "image" -> ImageMappings
                      [] rewriter = "youtube" -> YouTubeMappings(document)
                      [] OTHER -> {<<>>}
    /\ results = <<>>
    /\ tree = <<>> /\ tree0 = <<>> /\ dirOf = <<>> /\ disk = {}
    /\ base_dir = TRUE /\ perm = <<>> /\ written = {}
    /\ script = "none" /\ pc = "none" /\ locals = <<>> /\ calls = <<>>
    /\ last = <<>> /\ ran = {} /\ failed = FALSE

\* The text the next call is given: the document, then the rewriter's own output.
Input == IF results = <<>> THEN document ELSE results[Len(results)].modified

RewriteImage ==
    /\ rewriter = "image"
    /\ Len(results) < 2
    /\ results' = Append(results, replace_image_links(Input, mapping))
    /\ UNCHANGED <<rewriter, document, mapping, runVars>>

RewriteYouTube ==
    /\ rewriter = "youtube"
    /\ Len(results) < 2
    /\ results' = Append(results, replace_youtube_links(Input, mapping))
    /\ UNCHANGED <<rewriter, document, mapping, runVars>>

RewriteDrive ==
    /\ rewriter = "drive"
    /\ Len(results) < 2
    /\ results' = Append(results, extract_and_replace_drive_links(Input))
    /\ UNCHANGED <<rewriter, document, mapping, runVars>>

NextRewrite == RewriteImage \/ RewriteYouTube \/ RewriteDrive

vars == <<rwVars, runVars>>

SpecRewrite == InitRewrite /\ [][NextRewrite]_vars

(* ----------------------- claims on the rewriters ----------------------- *)

\* The text given to call k and the result of call k.
InputOf(k) == IF k = 1 THEN document ELSE results[k - 1].modified

\* The links call k replaced.
Replaced(k) == {i \in DOMAIN InputOf(k) : results[k].modified[i] # InputOf(k)[i]}

\* The position of x in the list s (0 when it is not in it).
IndexOf(s, x) == IF x \in Range(s) THEN CHOOSE i \in DOMAIN s : s[i] = x ELSE 0

\* C1: a rewriter applied to the document it produced, with the same mapping,
\* reports zero replacements and returns the text unchanged.
C1_RewriteIdempotent ==
    Len(results) = 2 =>
        /\ results[2].replacements = 0
        /\ results[2].modified = results[1].modified

\* C2: replace_image_links changes a link only into the local path that the
\* mapping gives to exactly the URL of that link; a link holding any other
\* URL, one that extends a mapped URL included, is left as it was.
C2_ImageExactMatch ==
    rewriter = "image" =>
        \A k \in DOMAIN results : \A i \in Replaced(k) :
            \E e \in DOMAIN mapping :
                /\ UrlText(mapping[e].url) = UrlText(InputOf(k)[i])
                /\ results[k].modified[i] = LocalLink(InputOf(k)[i].ctx, mapping[e].file)

\* C2 witness: a mapped URL R1 and a link holding R2, which R1 is a proper
\* prefix of, stand in one document; R1 was replaced and R2 was not.
C2_Witness ==
    /\ rewriter = "image"
    /\ Len(results) >= 1
    /\ \E i, j \in DOMAIN document :
          /\ StartsWith(UrlText(document[j]), UrlText(document[i]))
          /\ UrlText(document[j]) # UrlText(document[i])
          /\ document[i].ctx = document[j].ctx
          /\ i \in Replaced(1)
          /\ results[1].modified[j] = document[j]

\* The local path a rewriter assigns to the identifier id of the document.
OwnPath(id) ==
    IF rewriter = "youtube"
    THEN {mapping[e].n : e \in {x \in DOMAIN mapping : mapping[x].id = id}}
    ELSE {IndexOf(drive_file_ids(document), id)} \ {0}

\* C3: in replace_youtube_links and extract_and_replace_drive_links every link
\* ends up pointing at the local path of its own identifier or stays untouched.
C3_IdentifierExactMatch ==
    (rewriter \in {"youtube", "drive"} /\ Len(results) >= 1) =>
        \A i \in Replaced(1) : results[1].modified[i].n \in OwnPath(document[i].id)

\* C9: the count a rewriter returns is the number of links it replaced.
C9_CountIsOccurrences ==
    \A k \in DOMAIN results : results[k].replacements = Cardinality(Replaced(k))

(* --------------------------- the tree on disk -------------------------- *)

\* The html files os.walk finds under base_dir, in the order it yields them.
NumFiles == 2

\* The links of all documents of a tree, taken together.
MaxTreeLinks == 2

Files == 1..NumFiles

Dirs == 1..NumFiles

\* The number of links in the first n files of a tree.
RECURSIVE LinksIn(_, _)
LinksIn(t, n) == IF n = 0 THEN 0 ELSE Len(t[n]) + LinksIn(t, n - 1)

\* The trees over a set of links: every file holds a sequence of them.
TreesOver(links) ==
    {t \in [Files -> SeqUpTo(links, MaxTreeLinks)] : LinksIn(t, NumFiles) <= MaxTreeLinks}

\* The first file lies in the first directory; a file lies in the directory
\* of an earlier file or in the next new one.
Layouts == {l \in [Files -> Dirs] : \A f \in Files : l[f] <= f /\ (f > 1 => l[f] <= l[f - 1] + 1)}

\* Every html file can be read and written.
AllRw == [f \in Files |-> "rw"]

\* At most one html file cannot be written ("r") or cannot be opened at all
\* ("none"); open() raises on it.
FaultyPerms ==
    {AllRw} \cup {[AllRw EXCEPT ![f] = x] : f \in Files, x \in {"r", "none"}}

\* open(path, 'wb') and a write: the file at (dir, file) holds asset afterwards.
WriteFile(d, dir, file, asset) ==
    {x \in d : ~(x.dir = dir /\ x.file = file)} \cup {[dir |-> dir, file |-> file, asset |-> asset]}

\* os.remove
RemoveFile(d, dir, file) == {x \in d : ~(x.dir = dir /\ x.file = file)}

\* os.path.exists
Exists(d, dir, file) == \E x \in d : x.dir = dir /\ x.file = file

\* Before any fetch call.
NoCall == [called |-> FALSE, existed |-> FALSE, transport |-> FALSE, result |-> FALSE,
           kept |-> TRUE]

\* What a fetch call found and did: the destination existed, the transport was
\* invoked, the call returned success, the disk is as it was before the call.
Call(existed, transport, result, kept) ==
    [called |-> TRUE, existed |-> existed, transport |-> transport, result |-> result,
     kept |-> kept]

(* ---------------------- download_images.py: main ----------------------- *)

\* The links of the documents download_images is run on.
MainImageLinks ==
    {RemoteLink("img_src", "https", <<"x">>), RemoteLink("css_bg", "https", <<"x">>),
     RemoteLink("img_src", "https", <<"x", "y">>), RemoteLink("img_src", "rel", <<"x">>)}

\* The same links and a URL that differs from another in letter case only.
CaseImageLinks == MainImageLinks \cup {RemoteLink("img_src", "https", <<"X">>)}

ImagesLocals ==
    [next |-> 1, all_images |-> <<>>, file_images |-> <<>>, image_mapping |-> <<>>,
     idx |-> 1, downloaded |-> 0, at |-> 1, files_modified |-> 0, total_replacements |-> 0]

\* download_images is started on a tree of documents over links whose file
\* permissions are in perms.
InitImagesOver(links, perms) ==
    /\ rewriter = "none" /\ document = <<>> /\ mapping = <<>> /\ results = <<>>
    /\ tree \in TreesOver(links)
    /\ tree0 = tree
    /\ dirOf \in Layouts
    /\ base_dir = TRUE
    /\ perm \in perms
    /\ written = {}
    /\ disk = {}
    /\ script = "download_images"
    /\ pc = "scan"
    /\ locals = ImagesLocals
    /\ calls = <<>>
    /\ last = NoCall
    /\ ran = {}
    /\ failed = FALSE

InitImagesWith(perms) == InitImagesOver(MainImageLinks, perms)

InitImages == InitImagesWith({AllRw})

InitImagesCase == InitImagesOver(CaseImageLinks, {AllRw})

\* all_images after the images of file were recorded: a new URL is added at
\* the end, the file is appended to the list of every URL.
RECURSIVE record_images(_, _, _)
record_images(all_images, images, file) ==
    IF images = <<>> THEN all_images
    ELSE LET img_url == Head(images)
             known == {k \in DOMAIN all_images : all_images[k].url = img_url}
             with == IF known = {}
                     THEN Append(all_images, [url |-> img_url, files |-> <<>>])
                     ELSE all_images
             k == CHOOSE j \in DOMAIN with : with[j].url = img_url
         IN  record_images([with EXCEPT ![k].files = Append(@, file)], Tail(images), file)

\* Where main goes after the scan and after the downloads.
AfterScan(all_images) == IF all_images = <<>> THEN "done" ELSE "fetch"

\* Step 1 for one html file: read it, extract, record; a file that cannot be
\* read is reported and passed over.
ScanFile ==
    /\ script = "download_images"
    /\ pc = "scan"
    /\ base_dir
    /\ LET file == locals.next IN
       \E images \in (IF perm[file] = "none" THEN {<<>>}
                      ELSE extract_image_links(tree[file])) :
          LET all_images == IF images # <<>>
                            THEN record_images(locals.all_images, images, file)
                            ELSE locals.all_images
              file_images == IF images # <<>>
                             THEN Append(locals.file_images, [file_path |-> file, images |-> images])
                             ELSE locals.file_images
          IN  /\ locals' = [locals EXCEPT !.next = file + 1,
                                          !.all_images = all_images,
                                          !.file_images = file_images]
              /\ pc' = IF file = NumFiles THEN AfterScan(all_images) ELSE "scan"
    /\ ran' = IF pc' = "done" THEN ran \cup {script} ELSE ran
    /\ UNCHANGED <<rwVars, tree, tree0, dirOf, base_dir, perm, written, disk, script, calls, last, failed>>

\* first_file: the first entry of file_images whose list holds url.
first_file(file_images, url) ==
    LET with == {k \in DOMAIN file_images : url \in Range(file_images[k].images)}
    IN  file_images[CHOOSE k \in with : \A j \in with : k <= j].file_path

\* download_image returning True also when the request failed.
download_image_always_true(d, url, dir, file, ok) ==
    [disk |-> IF ok THEN WriteFile(d, dir, file, url) ELSE d, result |-> TRUE]

\* download_image(url, output_path): requests.get, raise_for_status, write.
\* ok: the request succeeded; on an exception nothing was written.
download_image(d, url, dir, file, ok) ==
    [disk |-> IF ok THEN WriteFile(d, dir, file, url) ELSE d, result |-> ok]

\* Step 2 that enters the URL in image_mapping whatever download_image returned.
FetchImageMapsAll ==
    /\ script = "download_images"
    /\ pc = "fetch"
    /\ LET idx == locals.idx
           url == locals.all_images[idx].url
           file_dir == dirOf[first_file(locals.file_images, url)]
           filename == image_filename(idx, url)
       IN  \E ok \in BOOLEAN :
             LET got == download_image(disk, url, file_dir, filename, ok) IN
             /\ disk' = got.disk
             /\ calls' = Append(calls, url)
             /\ last' = Call(Exists(disk, file_dir, filename), TRUE, got.result,
                             got.disk = disk)
             /\ failed' = (failed \/ ~ok)
             /\ locals' = [locals EXCEPT
                    !.idx = idx + 1,
                    !.image_mapping = Append(@, [url |-> url, file |-> filename]),
                    !.downloaded = IF got.result THEN @ + 1 ELSE @]
             /\ pc' = IF idx = Len(locals.all_images) THEN "rewrite" ELSE "fetch"
    /\ UNCHANGED <<rwVars, tree, tree0, dirOf, base_dir, perm, written, script, ran>>

\* Step 2 for one URL of all_images.
FetchImage ==
    /\ script = "download_images"
    /\ pc = "fetch"
    /\ LET idx == locals.idx
           url == locals.all_images[idx].url
           file_dir == dirOf[first_file(locals.file_images, url)]
           filename == image_filename(idx, url)
       IN  \E ok \in BOOLEAN :
             LET got == download_image(disk, url, file_dir, filename, ok) IN
             /\ disk' = got.disk
             /\ calls' = Append(calls, url)
             /\ last' = Call(Exists(disk, file_dir, filename), TRUE, got.result,
                             got.disk = disk)
             /\ failed' = (failed \/ ~ok)
             /\ locals' = [locals EXCEPT
                    !.idx = idx + 1,
                    !.image_mapping = IF got.result
                                      THEN Append(@, [url |-> url, file |-> filename])
                                      ELSE @,
                    !.downloaded = IF got.result THEN @ + 1 ELSE @]
             /\ pc' = IF idx = Len(locals.all_images) THEN "rewrite" ELSE "fetch"
    /\ UNCHANGED <<rwVars, tree, tree0, dirOf, base_dir, perm, written, script, ran>>

\* Step 3 for one entry of file_images: read, replace, write if replaced; when
\* open(file_path, 'w') raises, the file is reported and nothing is counted.
RewriteFile ==
    /\ script = "download_images"
    /\ pc = "rewrite"
    /\ LET file == locals.file_images[locals.at].file_path
           out == replace_image_links(tree[file], locals.image_mapping)
           write == out.replacements > 0 /\ perm[file] = "rw"
       IN  /\ tree' = IF write THEN [tree EXCEPT ![file] = out.modified] ELSE tree
           /\ written' = IF write THEN written \cup {file} ELSE written
           /\ locals' = [locals EXCEPT
                  !.at = @ + 1,
                  !.files_modified = IF write THEN @ + 1 ELSE @,
                  !.total_replacements = IF write THEN @ + out.replacements ELSE @]
           /\ pc' = IF locals.at = Len(locals.file_images) THEN "done" ELSE "rewrite"
    /\ ran' = IF pc' = "done" THEN ran \cup {script} ELSE ran
    /\ UNCHANGED <<rwVars, tree0, dirOf, base_dir, perm, disk, script, calls, last, failed>>

\* The script is started again on the tree it left.
RunImagesAgain ==
    /\ script = "download_images"
    /\ pc = "done"
    /\ pc' = "scan"
    /\ locals' = ImagesLocals
    /\ calls' = <<>>
    /\ last' = NoCall
    /\ written' = {}
    /\ UNCHANGED <<rwVars, tree, tree0, dirOf, base_dir, perm, disk, script, ran, failed>>

NextImages == ScanFile \/ FetchImage \/ RewriteFile \/ RunImagesAgain

SpecImages == InitImages /\ [][NextImages]_vars

SpecImagesCase == InitImagesCase /\ [][NextImages]_vars

(* ------------------- download_panopto_videos.py: main ------------------ *)

Panopto == "download_panopto_videos"

\* The links of the documents download_panopto_videos is run on.
MainPanoptoLinks ==
    {PanoptoLink("redirect", "%3Fid%3D", <<"a">>, TRUE),
     PanoptoLink("viewer", "?id=", <<"a">>, FALSE),
     PanoptoLink("embed", "?id=", <<"b">>, FALSE),
     PanoptoLink("viewer", "?tid=", <<"a">>, FALSE)}

PanoptoLocals ==
    [next |-> 1, all_videos |-> <<>>, file_videos |-> <<>>, video_mapping |-> <<>>,
     idx |-> 1, downloaded |-> 0, at |-> 1, files_modified |-> 0, total_replacements |-> 0]

InitPanopto ==
    /\ rewriter = "none" /\ document = <<>> /\ mapping = <<>> /\ results = <<>>
    /\ tree \in TreesOver(MainPanoptoLinks)
    /\ tree0 = tree
    /\ dirOf \in Layouts
    /\ base_dir = TRUE
    /\ perm = [f \in Files |-> "rw"]
    /\ written = {}
    /\ disk = {}
    /\ script = Panopto
    /\ pc = "scan"
    /\ locals = PanoptoLocals
    /\ calls = <<>>
    /\ last = NoCall
    /\ ran = {}
    /\ failed = FALSE

\* all_videos after the videos of file were recorded.
RECURSIVE record_videos(_, _, _)
record_videos(all_videos, videos, file) ==
    IF videos = <<>> THEN all_videos
    ELSE LET video_id == Head(videos)
             known == {k \in DOMAIN all_videos : all_videos[k].id = video_id}
             with == IF known = {}
                     THEN Append(all_videos, [id |-> video_id, files |-> <<>>])
                     ELSE all_videos
             k == CHOOSE j \in DOMAIN with : with[j].id = video_id
         IN  record_videos([with EXCEPT ![k].files = Append(@, file)], Tail(videos), file)

\* Step 1 for one html file: read it, extract, record; a file that cannot be
\* read is reported and passed over.
ScanPanopto ==
    /\ script = Panopto
    /\ pc = "scan"
    /\ base_dir
    /\ LET file == locals.next
           videos == IF perm[file] = "none" THEN <<>> ELSE extract_panopto_links(tree[file])
           all_videos == IF videos # <<>>
                         THEN record_videos(locals.all_videos, videos, file)
                         ELSE locals.all_videos
           file_videos == IF videos # <<>>
                          THEN Append(locals.file_videos, [file_path |-> file, videos |-> videos])
                          ELSE locals.file_videos
       IN  /\ locals' = [locals EXCEPT !.next = file + 1,
                                       !.all_videos = all_videos,
                                       !.file_videos = file_videos]
           /\ pc' = IF file = NumFiles THEN AfterScan(all_videos) ELSE "scan"
    /\ ran' = IF pc' = "done" THEN ran \cup {script} ELSE ran
    /\ UNCHANGED <<rwVars, tree, tree0, dirOf, base_dir, perm, written, disk, script, calls,
                   last, failed>>

\* first_file: the first entry of file_videos that holds video_id.
first_video_file(file_videos, video_id) ==
    LET with == {k \in DOMAIN file_videos : video_id \in Range(file_videos[k].videos)}
    IN  file_videos[CHOOSE k \in with : \A j \in with : k <= j].file_path

\* filename = f'panopto_{idx}.mp4'
panopto_filename(idx) == video_filename("panopto", idx)

\* download_panopto_video(url, output_path): True unless yt-dlp raises.
\* outcome "ok": the video is at output_path afterwards; "kept": yt-dlp
\* returns and has written nothing; "raise": it raises.
download_panopto_video(d, video_id, dir, file, outcome) ==
    CASE outcome = "ok" -> [disk |-> WriteFile(d, dir, file, video_id), result |-> TRUE]
      [] outcome = "kept" -> [disk |-> d, result |-> TRUE]
      [] OTHER -> [disk |-> d, result |-> FALSE]

\* Step 2 for one identifier of all_videos.
FetchPanopto ==
    /\ script = Panopto
    /\ pc = "fetch"
    /\ LET idx == locals.idx
           video_id == locals.all_videos[idx].id
           file_dir == dirOf[first_video_file(locals.file_videos, video_id)]
           filename == panopto_filename(idx)
       IN  \E outcome \in {"ok", "kept", "raise"} :
             LET got == download_panopto_video(disk, video_id, file_dir, filename, outcome) IN
             /\ disk' = got.disk
             /\ calls' = Append(calls, video_id)
             /\ last' = Call(Exists(disk, file_dir, filename), TRUE, got.result,
                             got.disk = disk)
             /\ failed' = (failed \/ outcome = "raise")
             /\ locals' = [locals EXCEPT
                    !.idx = idx + 1,
                    !.video_mapping = IF got.result
                                      THEN Append(@, [id |-> video_id, n |-> idx])
                                      ELSE @,
                    !.downloaded = IF got.result THEN @ + 1 ELSE @]
             /\ pc' = IF idx = Len(locals.all_videos) THEN "rewrite" ELSE "fetch"
    /\ UNCHANGED <<rwVars, tree, tree0, dirOf, base_dir, perm, written, script, ran>>

\* Step 3 for one entry of file_videos: read, replace, write if replaced.
RewritePanopto ==
    /\ script = Panopto
    /\ pc = "rewrite"
    /\ LET file == locals.file_videos[locals.at].file_path
           out == replace_panopto_links(tree[file], locals.video_mapping)
           write == out.replacements > 0 /\ perm[file] = "rw"
       IN  /\ tree' = IF write THEN [tree EXCEPT ![file] = out.modified] ELSE tree
           /\ written' = IF write THEN written \cup {file} ELSE written
           /\ locals' = [locals EXCEPT
                  !.at = @ + 1,
                  !.files_modified = IF write THEN @ + 1 ELSE @,
                  !.total_replacements = IF write THEN @ + out.replacements ELSE @]
           /\ pc' = IF locals.at = Len(locals.file_videos) THEN "done" ELSE "rewrite"
    /\ ran' = IF pc' = "done" THEN ran \cup {script} ELSE ran
    /\ UNCHANGED <<rwVars, tree0, dirOf, base_dir, perm, disk, script, calls, last, failed>>

\* The script is started again on the tree it left.
RunPanoptoAgain ==
    /\ script = Panopto
    /\ pc = "done"
    /\ pc' = "scan"
    /\ locals' = PanoptoLocals
    /\ calls' = <<>>
    /\ last' = NoCall
    /\ written' = {}
    /\ UNCHANGED <<rwVars, tree, tree0, dirOf, base_dir, perm, disk, script, ran, failed>>

NextPanopto == ScanPanopto \/ FetchPanopto \/ RewritePanopto \/ RunPanoptoAgain

SpecPanopto == InitPanopto /\ [][NextPanopto]_vars

\* download_images or download_panopto_videos, one of them run on a tree.
InitBatch == InitImages \/ InitPanopto

NextBatch == NextImages \/ NextPanopto

SpecBatch == InitBatch /\ [][NextBatch]_vars

(* ------------- the video scripts: downloaders and mains ---------------- *)

YouTube == "download_youtube_videos"

Gdown == "download_videos_gdown"

Plain == "download_videos"

Update == "update_video_links"

DownloadScripts == {YouTube, Gdown, Plain}

\* What is at the destination of a transfer that did not complete.
Partial == <<"partial">>

Empty == <<"empty">>

\* download_youtube_video(video_id, destination_folder, video_number).
\* outcome: what yt-dlp does when it is called: "ok" leaves the video at
\* output_path, "empty" returns with no file or an empty one, "raise" raises.
download_youtube_video(d, video_id, dir, video_number, outcome) ==
    LET output_path == video_filename("youtube", video_number) IN
    IF Exists(d, dir, output_path)
    THEN [disk |-> d, result |-> TRUE, transport |-> FALSE]
    ELSE CASE outcome = "ok" ->
                [disk |-> WriteFile(d, dir, output_path, video_id), result |-> TRUE,
                 transport |-> TRUE]
           [] outcome = "empty" ->
                [disk |-> RemoveFile(WriteFile(d, dir, output_path, Empty), dir, output_path),
                 result |-> FALSE, transport |-> TRUE]
           [] OTHER ->
                [disk |-> d, result |-> FALSE, transport |-> TRUE]

\* download_video without the test of os.path.exists(output_path).
download_video_no_skip(d, file_id, dir, file_number, outcome) ==
    LET output_path == video_filename("video", file_number) IN
    CASE outcome = "ok" ->
           [disk |-> WriteFile(d, dir, output_path, file_id), result |-> TRUE,
            transport |-> TRUE]
      [] OTHER ->
           [disk |-> RemoveFile(d, dir, output_path), result |-> FALSE, transport |-> TRUE]

\* download_video(file_id, destination_folder, file_number) of
\* download_videos_gdown.py, with gdown.download as the transport.
download_video(d, file_id, dir, file_number, outcome) ==
    LET output_path == video_filename("video", file_number) IN
    IF Exists(d, dir, output_path)
    THEN [disk |-> d, result |-> TRUE, transport |-> FALSE]
    ELSE CASE outcome = "ok" ->
                [disk |-> WriteFile(d, dir, output_path, file_id), result |-> TRUE,
                 transport |-> TRUE]
           [] outcome = "empty" ->
                [disk |-> RemoveFile(WriteFile(d, dir, output_path, Empty), dir, output_path),
                 result |-> FALSE, transport |-> TRUE]
           [] OTHER ->
                [disk |-> d, result |-> FALSE, transport |-> TRUE]

\* download_file(url, destination_folder, file_number) of download_videos.py:
\* urlretrieve writes to filepath itself, so a transfer that raises half-way
\* ("partial") leaves what it wrote.
download_file(d, file_id, dir, file_number, outcome) ==
    LET filepath == video_filename("video", file_number) IN
    IF Exists(d, dir, filepath)
    THEN [disk |-> d, result |-> TRUE, transport |-> FALSE]
    ELSE CASE outcome = "ok" ->
                [disk |-> WriteFile(d, dir, filepath, file_id), result |-> TRUE,
                 transport |-> TRUE]
           [] outcome = "partial" ->
                [disk |-> WriteFile(d, dir, filepath, Partial), result |-> FALSE,
                 transport |-> TRUE]
           [] OTHER ->
                [disk |-> d, result |-> FALSE, transport |-> TRUE]

\* extract_google_drive_file_ids of download_videos_gdown.py: list(file_ids)
\* of a set, in any order.
extract_google_drive_file_ids(html_content) ==
    ListingsOf(Range(drive_ids_of_patterns(html_content, DrivePatterns)))

\* extract_google_drive_links of download_videos.py: one link per match of the
\* first three patterns, repeated identifiers kept.
extract_google_drive_links(html_content) ==
    drive_ids_of_patterns(html_content, <<"full_url", "open_url", "docs_url">>)

\* The lists the extraction of a script can return for a document.
Extractions(s, html_content) ==
    CASE s = YouTube -> {extract_youtube_links(html_content)}
      [] s = Gdown   -> extract_google_drive_file_ids(html_content)
      [] OTHER       -> {extract_google_drive_links(html_content)}

\* The scan before the prompt: the files with at least one video, each with
\* the number of videos found (files_with_youtube, all_links).
RECURSIVE scan_for_links(_, _, _)
scan_for_links(s, t, n) ==
    IF n = 0 THEN <<>>
    ELSE LET rest == scan_for_links(s, t, n - 1)
             videos == CHOOSE v \in Extractions(s, t[n]) : TRUE
         IN  IF videos # <<>> THEN Append(rest, [file |-> n, n |-> Len(videos)]) ELSE rest

RECURSIVE total_videos(_)
total_videos(found) == IF found = <<>> THEN 0 ELSE Head(found).n + total_videos(Tail(found))

\* The links of the documents of the video scripts.
MainYouTubeLinks ==
    {VideoLink("watch", <<"a">>, TRUE, FALSE), VideoLink("short", <<"a">>, TRUE, FALSE),
     VideoLink("watch", <<"b">>, TRUE, FALSE)}

MainDriveLinks ==
    {VideoLink("full_url", <<"a">>, TRUE, FALSE), VideoLink("open_url", <<"a">>, TRUE, FALSE),
     VideoLink("full_url", <<"b">>, TRUE, FALSE)}

VideoLocals ==
    [found |-> <<>>, total_videos |-> 0, k |-> 1, ids |-> <<>>, i |-> 1,
     video_id_mapping |-> <<>>, downloaded |-> 0, total_downloaded |-> 0,
     files_modified |-> 0, total_replacements |-> 0, response |-> ""]

\* Where the main of a script starts.
Entry(s) == IF s = Update THEN "file" ELSE "scan"

\* One of scripts is started on a tree whose file permissions are in perms.
InitVideosWith(scripts, perms) ==
    /\ rewriter = "none" /\ document = <<>> /\ mapping = <<>> /\ results = <<>>
    /\ script \in scripts
    /\ tree \in TreesOver(IF script = YouTube THEN MainYouTubeLinks ELSE MainDriveLinks)
    /\ tree0 = tree
    /\ dirOf \in Layouts
    /\ base_dir = TRUE
    /\ perm \in perms
    /\ written = {}
    /\ disk = {}
    /\ pc = Entry(script)
    /\ locals = VideoLocals
    /\ calls = <<>>
    /\ last = NoCall
    /\ ran = {}
    /\ failed = FALSE

InitVideos == InitVideosWith(DownloadScripts \cup {Update}, {AllRw})

\* The files the loop of main goes through: files_with_youtube in
\* download_youtube_videos, every html file in the other scripts.
ToProcess ==
    IF script = YouTube
    THEN [j \in DOMAIN locals.found |-> locals.found[j].file]
    ELSE [j \in Files |-> j]

CurrentFile == ToProcess[locals.k]

\* The scan of main, up to the prompt.
ScanVideos ==
    /\ script \in DownloadScripts
    /\ pc = "scan"
    /\ base_dir
    /\ LET found == scan_for_links(script, tree, NumFiles) IN
       /\ locals' = [locals EXCEPT !.found = found, !.total_videos = total_videos(found)]
       /\ pc' = IF found = <<>> THEN "done" ELSE "prompt"
    /\ ran' = IF pc' = "done" THEN ran \cup {script} ELSE ran
    /\ UNCHANGED <<rwVars, tree, tree0, dirOf, base_dir, perm, written, disk, script, calls, last, failed>>

\* The prompt that starts the downloads whatever the answer is.
PromptAlwaysProceeds ==
    /\ script \in DownloadScripts
    /\ pc = "prompt"
    /\ \E answer \in {"y", "Y", "n"} :
          /\ locals' = [locals EXCEPT !.response = Lower(answer)]
          /\ pc' = "file"
    /\ UNCHANGED <<rwVars, tree, tree0, dirOf, base_dir, perm, written, disk, script, calls, last, ran, failed>>

\* response = input(...).strip().lower(); if response != 'y': return
Prompt ==
    /\ script \in DownloadScripts
    /\ pc = "prompt"
    /\ \E answer \in {"y", "Y", "n"} :
          LET response == Lower(answer) IN
          /\ locals' = [locals EXCEPT !.response = response]
          /\ pc' = IF response = "y" THEN "file" ELSE "done"
    /\ UNCHANGED <<rwVars, tree, tree0, dirOf, base_dir, perm, written, disk, script, calls, last, ran, failed>>

\* main after process_html_file returned count for the current file.
Returned(l, count) ==
    [l EXCEPT !.k = @ + 1,
              !.files_modified = IF count > 0 THEN @ + 1 ELSE @,
              !.total_downloaded = @ + count]

NextFile == IF locals.k = Len(ToProcess) THEN "done" ELSE "file"

\* process_html_file of a download script, up to its loop: read and extract.
BeginFile ==
    /\ script \in DownloadScripts
    /\ pc = "file"
    /\ \E ids \in Extractions(script, tree[CurrentFile]) :
          IF ids = <<>>
          THEN /\ locals' = Returned(locals, 0)
               /\ pc' = NextFile
          ELSE /\ locals' = [locals EXCEPT !.ids = ids, !.i = 1, !.video_id_mapping = <<>>,
                                           !.downloaded = 0]
               /\ pc' = "download"
    /\ ran' = IF pc' = "done" THEN ran \cup {script} ELSE ran
    /\ UNCHANGED <<rwVars, tree, tree0, dirOf, base_dir, perm, written, disk, script, calls, last, failed>>

\* One turn of the loop of process_html_file, given what the downloader did
\* about the file output_path of the videos folder of the current document.
Downloaded(got, outcome, output_path) ==
    LET i == locals.i
        id == locals.ids[i]
        count == IF got.result THEN locals.downloaded + 1 ELSE locals.downloaded
        more == i < Len(locals.ids)
        l == [locals EXCEPT
                 !.i = i + 1,
                 !.downloaded = count,
                 !.video_id_mapping = IF got.result /\ script = YouTube
                                      THEN Append(@, [id |-> id, n |-> i]) ELSE @]
    IN  /\ disk' = got.disk
        /\ calls' = Append(calls, id)
        /\ last' = Call(Exists(disk, dirOf[CurrentFile], output_path), got.transport,
                        got.result, got.disk = disk)
        /\ failed' = (failed \/ (got.transport /\ outcome # "ok"))
        /\ pc' = IF more THEN "download" ELSE IF script = YouTube THEN "replace" ELSE NextFile
        /\ locals' = IF more \/ script = YouTube THEN l ELSE Returned(l, count)
        /\ ran' = IF pc' = "done" THEN ran \cup {script} ELSE ran
        /\ UNCHANGED <<rwVars, tree, tree0, dirOf, base_dir, perm, written, script>>

DownloadYouTubeVideo ==
    /\ script = YouTube
    /\ pc = "download"
    /\ \E outcome \in {"ok", "empty", "raise"} :
          Downloaded(download_youtube_video(disk, locals.ids[locals.i], dirOf[CurrentFile],
                                            locals.i, outcome), outcome,
                     video_filename("youtube", locals.i))

DownloadVideo ==
    /\ script = Gdown
    /\ pc = "download"
    /\ \E outcome \in {"ok", "empty", "raise"} :
          Downloaded(download_video(disk, locals.ids[locals.i], dirOf[CurrentFile],
                                    locals.i, outcome), outcome,
                     video_filename("video", locals.i))

DownloadFile ==
    /\ script = Plain
    /\ pc = "download"
    /\ \E outcome \in {"ok", "raise", "partial"} :
          Downloaded(download_file(disk, locals.ids[locals.i], dirOf[CurrentFile],
                                   locals.i, outcome), outcome,
                     video_filename("video", locals.i))

\* The end of process_html_file of download_youtube_videos: replace, write.
ReplaceYouTube ==
    /\ script = YouTube
    /\ pc = "replace"
    /\ LET out == replace_youtube_links(tree[CurrentFile], locals.video_id_mapping) IN
       /\ tree' = IF locals.video_id_mapping # <<>> /\ out.replacements > 0
                  THEN [tree EXCEPT ![CurrentFile] = out.modified]
                  ELSE tree
       /\ written' = IF locals.video_id_mapping # <<>> /\ out.replacements > 0
                     THEN written \cup {CurrentFile} ELSE written
       /\ locals' = Returned(locals, locals.downloaded)
       /\ pc' = NextFile
    /\ ran' = IF pc' = "done" THEN ran \cup {script} ELSE ran
    /\ UNCHANGED <<rwVars, tree0, dirOf, base_dir, perm, disk, script, calls, last, failed>>

\* 'drive.google.com' in content
has_drive_text(html_content) ==
    \E i \in DOMAIN html_content :
        html_content[i].form \in {"full_url", "open_url", "uc_amp", "uc_url"}

\* process_html_file of update_video_links for the current file, and main's
\* counting of what it returned: 0 when open() raised on reading or writing.
UpdateFile ==
    /\ script = Update
    /\ pc = "file"
    /\ base_dir
    /\ LET content == tree[CurrentFile]
           out == IF perm[CurrentFile] # "none" /\ has_drive_text(content)
                  THEN extract_and_replace_drive_links(content)
                  ELSE [modified |-> content, replacements |-> 0]
           write == out.replacements > 0 /\ perm[CurrentFile] = "rw"
       IN  /\ tree' = IF write THEN [tree EXCEPT ![CurrentFile] = out.modified] ELSE tree
           /\ written' = IF write THEN written \cup {CurrentFile} ELSE written
           /\ locals' = [locals EXCEPT
                  !.k = @ + 1,
                  !.files_modified = IF write THEN @ + 1 ELSE @,
                  !.total_replacements = IF write THEN @ + out.replacements ELSE @]
           /\ pc' = NextFile
    /\ ran' = IF pc' = "done" THEN ran \cup {script} ELSE ran
    /\ UNCHANGED <<rwVars, tree0, dirOf, base_dir, perm, disk, script, calls, last, failed>>

\* The scripts run on a tree after script s: s once more, and
\* update_video_links after a script that downloads from Google Drive.
Followers(s) == IF s \in {Gdown, Plain} THEN {s, Update} ELSE {s}

\* The next script is started on the tree as it was left.
RunVideoScript ==
    /\ script \in DownloadScripts \cup {Update}
    /\ pc = "done"
    /\ \E s \in Followers(script) :
          /\ script' = s
          /\ pc' = Entry(s)
    /\ locals' = VideoLocals
    /\ calls' = <<>>
    /\ last' = NoCall
    /\ written' = {}
    /\ UNCHANGED <<rwVars, tree, tree0, dirOf, base_dir, perm, disk, ran, failed>>

NextVideos ==
    \/ ScanVideos \/ Prompt \/ BeginFile
    \/ DownloadYouTubeVideo \/ DownloadVideo \/ DownloadFile
    \/ ReplaceYouTube \/ UpdateFile \/ RunVideoScript

SpecVideos == InitVideos /\ [][NextVideos]_vars

(* ---------------------- claims on download_images ---------------------- *)

\* The identity of the remote reference first written at place i of file f.
Replaced0(f, i) == CHOOSE u \in external_image(tree0[f][i]) : TRUE

\* The keys of image_mapping.
MappedUrls == {locals.image_mapping[k].url : k \in DOMAIN locals.image_mapping}

\* s lists no element twice.
NoRepeat(s) == \A i, j \in DOMAIN s : i # j => s[i] # s[j]

\* C4: over any number of runs of download_images, every local link of a
\* document refers to a file that holds the asset of the remote reference the
\* link replaced.  Stated for trees whose files lie in one directory, where a
\* local path resolves in the directory the asset was stored in.
C4_LocalLinksHoldTheirAsset ==
    (script = "download_images" /\ \A f \in Files : dirOf[f] = dirOf[1]) =>
        \A f \in Files : \A i \in DOMAIN tree[f] :
            IsLocal(tree[f][i]) =>
                \E x \in disk : /\ x.dir = dirOf[f]
                                 /\ x.file = tree[f][i].file
                                 /\ x.asset = Replaced0(f, i)

\* C8: after the rewrite phase no document holds, in any way of writing it, a
\* reference that extraction returned for it and whose download succeeded.
C8_ExtractedAreReplaced ==
    (script = "download_images" /\ pc = "done") =>
        \A k \in DOMAIN locals.file_images :
            LET e == locals.file_images[k] IN
            \A i \in DOMAIN tree[e.file_path] :
                LET t == tree[e.file_path][i] IN
                ~(/\ t.ctx \in ExtractContexts
                  /\ external_image(t) \cap Range(e.images) \cap MappedUrls # {})

\* C10: extract_image_links returns each URL of a document exactly once, and
\* main records a document at most once in the list of a URL.
C10_ExtractionDeduplicates ==
    script = "download_images" =>
        /\ \A k \in DOMAIN locals.file_images :
              LET e == locals.file_images[k] IN
              /\ NoRepeat(e.images)
              /\ pc \in {"scan", "fetch"} =>
                    Range(e.images) = Range(external_images(tree[e.file_path]))
        /\ \A k \in DOMAIN locals.all_images : NoRepeat(locals.all_images[k].files)
        /\ NoRepeat([k \in DOMAIN locals.all_images |-> locals.all_images[k].url])

\* C10 witness: a scanned document holds one URL in an <img src> and in a CSS
\* background; its list holds the URL once and the URL lists the document once.
C10_Witness ==
    /\ script = "download_images"
    /\ pc = "fetch"
    /\ \E k \in DOMAIN locals.file_images :
          LET e == locals.file_images[k]
              doc == tree[e.file_path]
          IN  /\ \E i, j \in DOMAIN doc :
                    /\ doc[i].ctx = "img_src" /\ doc[j].ctx = "css_bg"
                    /\ external_image(doc[i]) = external_image(doc[j])
              /\ Len(e.images) = 1
              /\ \E a \in DOMAIN locals.all_images :
                    /\ locals.all_images[a].url = e.images[1]
                    /\ locals.all_images[a].files = <<e.file_path>>

(* ----------------------- claims on the video scripts ------------------- *)

\* The places of the tree as first written that hold Google Drive file id.
DrivePlaces(id) ==
    {p \in Files \X (1..MaxTreeLinks) :
        /\ p[2] \in DOMAIN tree0[p[1]]
        /\ tree0[p[1]][p[2]].form \in {"full_url", "open_url"}
        /\ tree0[p[1]][p[2]].id = id}

\* download_videos_gdown and then update_video_links went through the whole
\* tree, and every transfer delivered its video.
GdownThenUpdateDone ==
    /\ script = Update /\ pc = "done"
    /\ ran = {Gdown, Update}
    /\ ~failed

\* C5: after download_videos_gdown and update_video_links have run, two
\* documents that hold one Google Drive file id in different URL forms hold
\* the same local path for it, and in the folder of each of them that path is
\* the one file that was downloaded for the id.
C5_OneAssetPerDriveId ==
    GdownThenUpdateDone =>
        \A id \in Ids : \A p, q \in DrivePlaces(id) :
            (p[1] # q[1] /\ tree0[p[1]][p[2]].form # tree0[q[1]][q[2]].form) =>
                LET a == tree[p[1]][p[2]]
                    b == tree[q[1]][q[2]]
                IN  /\ a.form = "local" /\ b.form = "local"
                    /\ a.stem = b.stem /\ a.n = b.n
                    /\ Cardinality({x \in disk : x.asset = id}) = 1
                    /\ \A f \in {p[1], q[1]} :
                          \E x \in disk : /\ x.dir = dirOf[f]
                                           /\ x.file = video_filename(a.stem, a.n)
                                           /\ x.asset = id

\* C6: a call of download_file, download_video or download_youtube_video that
\* finds its destination file returns success, does not invoke the transport
\* and leaves the disk as it was.
C6_FetchSkip ==
    (script \in DownloadScripts /\ last.called /\ last.existed) =>
        (last.result /\ ~last.transport /\ last.kept)

\* C6 witness: download_videos_gdown, run a second time, has called
\* download_video for a video whose file is there.
C6_Witness ==
    /\ script = Gdown
    /\ Gdown \in ran
    /\ last.called /\ last.existed
    /\ disk # {}

\* C7: in one run of download_youtube_videos or download_videos the downloader
\* is called once for an identifier, in however many places and documents the
\* identifier stands.
C7_OneFetchPerIdentity ==
    script \in {YouTube, Plain} => NoRepeat(calls)

(* ------------- claims on the three-phase mains (SpecBatch) ------------- *)

\* The mapping, the aggregated references and the per-file lists of the main
\* that is running.
BatchMapping == IF script = Panopto THEN locals.video_mapping ELSE locals.image_mapping

BatchAll == IF script = Panopto THEN locals.all_videos ELSE locals.all_images

BatchFiles == IF script = Panopto THEN locals.file_videos ELSE locals.file_images

\* A step of the fetch phase in which the fetch of a reference failed.
FetchFails ==
    /\ pc = "fetch"
    /\ calls' # calls
    /\ (~failed /\ failed') \/ ~last'.result

\* Once the fetch phase is over every aggregated reference was attempted, in
\* order, and once main is over every file with references was rewritten.
AllAttempted ==
    /\ pc \in {"rewrite", "done"} => Len(calls) = Len(BatchAll)
    /\ (pc = "done" /\ BatchFiles # <<>>) => locals.at = Len(BatchFiles) + 1

\* C11: a failed fetch does not end the fetch phase of download_images or
\* download_panopto_videos: the failed reference is not entered in the
\* mapping, the loop goes on to the next reference, after the last one the
\* rewrite phase begins, and every reference is attempted before it does.
C11_FailedFetchGoesOn ==
    /\ []AllAttempted
    /\ [][FetchFails =>
             /\ BatchMapping' = BatchMapping
             /\ locals'.idx = locals.idx + 1
             /\ pc' = IF locals.idx < Len(BatchAll) THEN "fetch" ELSE "rewrite"]_vars

\* C11 witness: main is over, the first of two references failed, the second
\* is in the mapping and a document was rewritten with it.
C11_Witness ==
    /\ pc = "done"
    /\ Len(calls) = 2
    /\ Len(BatchMapping) = 1
    /\ IF script = Panopto THEN BatchMapping[1].id = calls[2]
                           ELSE BatchMapping[1].url = calls[2]
    /\ written # {}

(* ------------- download_images_manual.py: create_download_list -------- *)

Manual == "download_images_manual"

\* The links of the documents create_download_list is run on.
ManualLinks ==
    {RemoteLink("img_src", "https", <<"googleusercontent.com", "x">>),
     RemoteLink("css_bg", "https", <<"googleusercontent.com", "x">>),
     RemoteLink("img_src", "https", <<"x">>)}

\* extract_image_links of download_images_manual.py, as the set it sorts: the
\* values that start with 'http' and hold 'googleusercontent.com'.
manual_image_links(html_content) ==
    {Url(html_content[i].scheme, html_content[i].body) : i \in
        {j \in DOMAIN html_content :
            /\ html_content[j].ctx \in ExtractContexts
            /\ html_content[j].scheme \in {"http", "https"}
            /\ "googleusercontent.com" \in Range(html_content[j].body)}}

ManualLocals == [next |-> 1, html_files |-> <<>>, image_urls |-> {}]

InitManual ==
    /\ rewriter = "none" /\ document = <<>> /\ mapping = <<>> /\ results = <<>>
    /\ tree \in TreesOver(ManualLinks)
    /\ tree0 = tree
    /\ dirOf \in Layouts
    /\ base_dir = TRUE
    /\ perm \in FaultyPerms
    /\ written = {}
    /\ disk = {}
    /\ script = Manual
    /\ pc = "scan"
    /\ locals = ManualLocals
    /\ calls = <<>>
    /\ last = NoCall
    /\ ran = {}
    /\ failed = FALSE

\* The body of the walk for one html file: the file is listed, opened and
\* read.  Nothing catches what open() raises: the exception leaves
\* create_download_list and ends the script.
ReadManual ==
    /\ script = Manual
    /\ pc = "scan"
    /\ base_dir
    /\ LET file == locals.next IN
       IF perm[file] = "none"
       THEN /\ locals' = [locals EXCEPT !.html_files = Append(@, file)]
            /\ pc' = "aborted"
       ELSE /\ locals' = [locals EXCEPT
                   !.next = file + 1,
                   !.html_files = Append(@, file),
                   !.image_urls = @ \cup manual_image_links(tree[file])]
            /\ pc' = IF file = NumFiles THEN "done" ELSE "scan"
    /\ ran' = IF pc' = "done" THEN ran \cup {script} ELSE ran
    /\ UNCHANGED <<rwVars, tree, tree0, dirOf, base_dir, perm, written, disk, script, calls,
                   last, failed>>

\* The script is started again on the same tree.
RunManualAgain ==
    /\ script = Manual
    /\ pc \in {"done", "aborted"}
    /\ pc' = "scan"
    /\ locals' = ManualLocals
    /\ UNCHANGED <<rwVars, tree, tree0, dirOf, base_dir, perm, written, disk, script, calls,
                   last, ran, failed>>

NextManual == ReadManual \/ RunManualAgain

(* ------------- the directory-walking scripts: SpecWalk ----------------- *)

\* download_images, update_video_links or download_images_manual is run on a
\* tree in which at most one html file cannot be read or written.
InitWalk ==
    \/ InitImagesWith(FaultyPerms)
    \/ InitVideosWith({Update}, FaultyPerms)
    \/ InitManual

NextWalk == NextImages \/ UpdateFile \/ RunVideoScript \/ NextManual

SpecWalk == InitWalk /\ [][NextWalk]_vars

\* The script has ended, by returning or by an exception nothing caught.
Terminated == pc \in {"done", "aborted"}

\* The walk of the running script has taken html file f: it was read, and in
\* the scripts that rewrite it was rewritten if there was something to replace.
Processed(f) ==
    CASE script = Manual -> f < locals.next
      [] script = Update ->
            /\ f < locals.k
            /\ perm[f] = "rw" => extract_and_replace_drive_links(tree[f]).replacements = 0
      [] OTHER ->
            /\ f < locals.next
            /\ \A k \in DOMAIN locals.file_images :
                  locals.file_images[k].file_path = f => k < locals.at

\* C12: when download_images, update_video_links or create_download_list of
\* download_images_manual has ended on a tree in which one document cannot be
\* read or written, every other document has been processed.
C12_DocumentIsolation ==
    Terminated => \A f \in Files : perm[f] = "rw" => Processed(f)

(* ----------------------- claims on writing back ------------------------ *)

\* C13: a step of a main writes a document only if the rewrite changed at
\* least one link of it, and the content of a document that is not written
\* stays as it is.
C13_WrittenOnlyIfReplaced ==
    [][\A f \in Files :
          /\ (f \in written' /\ f \notin written) => tree'[f] # tree[f]
          /\ tree'[f] # tree[f] => f \in written']_vars

(* ------------------- claims on filename assignment --------------------- *)

\* The identities and the filenames of the mapping of the running main, and
\* the identities of its aggregated references, each in dict order.
MappedIds ==
    [k \in DOMAIN BatchMapping |->
        IF script = Panopto THEN BatchMapping[k].id ELSE BatchMapping[k].url]

MappedNames ==
    [k \in DOMAIN BatchMapping |->
        IF script = Panopto THEN panopto_filename(BatchMapping[k].n) ELSE BatchMapping[k].file]

AllIds ==
    [k \in DOMAIN BatchAll |-> IF script = Panopto THEN BatchAll[k].id ELSE BatchAll[k].url]

\* C14: in a run of download_images or download_panopto_videos no identity is
\* aggregated or mapped twice, no two mapped identities have one filename, and
\* the number in the filename of an identity is its place among the
\* aggregated identities, also when fetches have failed.
C14_OneFilenamePerIdentity ==
    script \in {"download_images", Panopto} =>
        /\ NoRepeat(AllIds)
        /\ NoRepeat(MappedIds)
        /\ NoRepeat(MappedNames)
        /\ \A k \in DOMAIN BatchMapping :
              /\ MappedNames[k].n \in DOMAIN AllIds
              /\ AllIds[MappedNames[k].n] = MappedIds[k]

\* C14 witness: of two aggregated identities the first has failed and the
\* second is mapped, under the filename with the number 2.
C14_Witness ==
    /\ script \in {"download_images", Panopto}
    /\ pc = "rewrite"
    /\ Len(BatchAll) = 2
    /\ Len(BatchMapping) = 1
    /\ MappedNames[1].n = 2

\* The image URLs of the first n files of tree t in order of appearance,
\* documents in walk order.
RECURSIVE in_order_of_appearance(_, _)
in_order_of_appearance(t, n) ==
    IF n = 0 THEN <<>>
    ELSE in_order_of_appearance(t, n - 1) \o external_images(t[n])

\* C15: when download_images has scanned the tree, the place of a URL among
\* the aggregated URLs, which is the number in its filename, is its rank in
\* first-seen order: documents in walk order, references in order of
\* appearance.
C15_FilenamesFollowFirstSeenOrder ==
    (script = "download_images" /\ pc = "fetch") =>
        AllIds = unique(in_order_of_appearance(tree, NumFiles))

(* ------------- the extractors as functions: SpecExtract ---------------- *)

\* Symbols per URL handed to get_image_extension.
MaxUrlLen == 3

\* The links of the documents handed to extract_image_links: every context
\* and every way of writing a value, and links that break off.
ExtractLinks ==
    {RemoteLink(c, sc, <<"x">>) :
        c \in {"img_src", "source_srcset", "css_bg", "link_href", "a_href"},
        sc \in {"https", "rel"}}
    \cup {RemoteLink("img_src", "http", <<"x">>), RemoteLink("img_src", "data", <<"x">>),
          RemoteLink("img_src", "relative", <<"x">>),
          LocalLink("img_src", image_filename(1, Url("https", <<"x">>)))}

TruncatedLinks ==
    {TruncatedLink("img_src", "https", <<>>), TruncatedLink("img_src", "https", <<"x">>),
     TruncatedLink("img_src", "rel", <<"x">>)}

\* The documents over ExtractLinks, some of them ending in a link that breaks
\* off.
ExtractDocuments ==
    SeqUpTo(ExtractLinks, MaxDocLen)
    \cup {Append(d, t) : d \in SeqUpTo(ExtractLinks, MaxDocLen - 1), t \in TruncatedLinks}

\* The links of the documents handed to extract_panopto_links.
PanoptoLinks ==
    {PanoptoLink("redirect", m, x, TRUE) :
        m \in {"%3Fid%3D", "%253Fid%253D", "?id="}, x \in {<<"a">>, <<"A">>, <<"g">>}}
    \cup {PanoptoLink("viewer", m, x, FALSE) :
        m \in {"?id=", "?t=1&id=", "?t=1&amp;id=", "?tid="}, x \in {<<"a">>, <<"a", "g">>}}
    \cup {PanoptoLink("embed", "?id=", x, FALSE) : x \in {<<"a">>, <<"b">>}}

\* The symbols of the URLs handed to get_image_extension.
UrlSymbols == {"x", ".png", ".PNG", ".jpg", "googleusercontent.com", "?"}

ExtensionUrls == {Url("https", b) : b \in SeqUpTo(UrlSymbols, MaxUrlLen)}

\* A function is chosen and an argument for it; document holds the argument.
InitExtract ==
    /\ rewriter \in {"extract_image_links", "extract_panopto_links", "get_image_extension"}
    /\ document \in CASE rewriter = "extract_image_links" -> ExtractDocuments
                      [] rewriter = "extract_panopto_links" -> SeqUpTo(PanoptoLinks, MaxDocLen)
                      [] OTHER -> ExtensionUrls
    /\ mapping = <<>>
    /\ results = <<>>
    /\ tree = <<>> /\ tree0 = <<>> /\ dirOf = <<>> /\ disk = {}
    /\ base_dir = TRUE /\ perm = <<>> /\ written = {}
    /\ script = "none" /\ pc = "none" /\ locals = <<>> /\ calls = <<>>
    /\ last = <<>> /\ ran = {} /\ failed = FALSE

ExtractImageLinks ==
    /\ rewriter = "extract_image_links"
    /\ results = <<>>
    /\ \E images \in extract_image_links(document) : results' = <<images>>
    /\ UNCHANGED <<rewriter, document, mapping, runVars>>

ExtractPanoptoLinks ==
    /\ rewriter = "extract_panopto_links"
    /\ results = <<>>
    /\ results' = <<extract_panopto_links(document)>>
    /\ UNCHANGED <<rewriter, document, mapping, runVars>>

GetImageExtension ==
    /\ rewriter = "get_image_extension"
    /\ results = <<>>
    /\ results' = <<get_image_extension(document)>>
    /\ UNCHANGED <<rewriter, document, mapping, runVars>>

NextExtract == ExtractImageLinks \/ ExtractPanoptoLinks \/ GetImageExtension

SpecExtract == InitExtract /\ [][NextExtract]_vars

\* extract_image_links has returned.
ImagesReturned == rewriter = "extract_image_links" /\ results # <<>>

C17_TruncatedYieldsNothing ==
    ImagesReturned =>
        /\ Range(results[1]) =
              UNION {external_image(document[i]) : i \in
                        {j \in DOMAIN document :
                            document[j].closed /\ document[j].ctx \in ExtractContexts}}
        /\ (\A i \in DOMAIN document : ~document[i].closed) => results[1] = <<>>

\* C17 witness: a document that is a truncated <img src="https:// and nothing
\* else, and the empty list returned for it.
C17_Witness ==
    /\ ImagesReturned
    /\ document = <<TruncatedLink("img_src", "https", <<>>)>>
    /\ results[1] = <<>>

PanoptoReturned == rewriter = "extract_panopto_links" /\ results # <<>>

\* The identifiers written in the Panopto URLs of the document: what follows
\* an id parameter ("?id=" or "&id=" once the percent-encoding is taken off),
\* as far as it is made of hexadecimal symbols.
DocumentIds ==
    {hex_prefix(document[i].text) :
        i \in {j \in DOMAIN document :
                  document[j].mark \in {"?id=", "%3Fid%3D", "%253Fid%253D", "?t=1&id="}}}
    \ {<<>>}

\* C18: extract_panopto_links returns exactly one entry for every distinct
\* video id of the document, whether the id stands in a percent-encoded Google
\* redirect, in a Viewer URL or in an Embed URL, and no entry for a matched
\* URL from which no id can be derived.
C18_OneEntryPerPanoptoId ==
    PanoptoReturned =>
        /\ \A i, j \in DOMAIN results[1] : results[1][i] = results[1][j] => i = j
        /\ {results[1][k] : k \in DOMAIN results[1]} = DocumentIds

\* C18 witness: one id written in a percent-encoded redirect and again in an
\* Embed URL, and one entry returned for the two.
C18_Witness ==
    /\ PanoptoReturned
    /\ document = <<PanoptoLink("redirect", "%3Fid%3D", <<"a">>, TRUE),
                    PanoptoLink("embed", "?id=", <<"a">>, FALSE)>>
    /\ results[1] = <<(<<"a">>)>>

ExtensionReturned == rewriter = "get_image_extension" /\ results # <<>>

\* C19: get_image_extension returns the image suffix the URL path ends in when
\* it ends in one of .jpg .jpeg .png .gif .svg .webp .ico (in either letter
\* case), and otherwise .jpg for a googleusercontent.com or drive.google.com
\* URL and .png for every other URL.
C19_SuffixElseProviderDefault ==
    ExtensionReturned =>
        LET path == url_path(document.body)
            suffix == IF path = <<>> THEN "" ELSE Lower(path[Len(path)])
        IN  results[1] =
                IF suffix \in Range(ImageExtensions) THEN suffix
                ELSE IF Range(document.body) \cap {"googleusercontent.com", "drive.google.com"} # {}
                     THEN ".jpg"
                     ELSE ".png"

(* ------------------- a root directory that is missing ------------------ *)

\* download_images or one of the video scripts is started while the root
\* directory is missing: there is no document under it.
InitMissingRoot ==
    /\ rewriter = "none" /\ document = <<>> /\ mapping = <<>> /\ results = <<>>
    /\ script \in {"download_images"} \cup DownloadScripts \cup {Update}
    /\ tree = [f \in Files |-> <<>>]
    /\ tree0 = tree
    /\ dirOf \in Layouts
    /\ base_dir = FALSE
    /\ perm = AllRw
    /\ written = {}
    /\ disk = {}
    /\ pc = IF script = "download_images" THEN "scan" ELSE Entry(script)
    /\ locals = IF script = "download_images" THEN ImagesLocals ELSE VideoLocals
    /\ calls = <<>>
    /\ last = NoCall
    /\ ran = {}
    /\ failed = FALSE

InitRoot == InitImages \/ InitVideos \/ InitMissingRoot

\* if not base_dir.exists(): print("Error: Directory not found ..."); return
RootNotFound ==
    /\ script \in DownloadScripts \cup {Update}
    /\ pc = Entry(script)
    /\ ~base_dir
    /\ pc' = "not_found"
    /\ UNCHANGED <<rwVars, tree, tree0, dirOf, base_dir, perm, written, disk, script, locals, calls, last, ran, failed>>

\* main of download_images on a missing root: os.walk yields nothing, so
\* all_images and file_images stay empty, the loops of steps 2 and 3 have
\* nothing to go through and the summary is printed.
WalkMissingRoot ==
    /\ script = "download_images"
    /\ pc = "scan"
    /\ ~base_dir
    /\ pc' = "done"
    /\ ran' = ran \cup {script}
    /\ UNCHANGED <<rwVars, tree, tree0, dirOf, base_dir, perm, written, disk, script, locals, calls, last, failed>>

NextRoot == NextImages \/ NextVideos \/ RootNotFound \/ WalkMissingRoot

SpecRoot == InitRoot /\ [][NextRoot]_vars

\* C20: when the root directory is missing, a main is either at its entry or
\* has ended with the "Directory not found" diagnostic, and nothing was read,
\* fetched or written.
C20_MissingRootEndsAtOnce ==
    ~base_dir =>
        /\ pc \in {IF script = "download_images" THEN "scan" ELSE Entry(script), "not_found"}
        /\ calls = <<>> /\ disk = {} /\ written = {} /\ tree = tree0

(* -------------------- claims on where assets are stored ---------------- *)

\* The file a link of a document of the running script names under images/ or
\* videos/, in a set that is empty for a link that is not local.
LocalFileOf(t) ==
    IF script = "download_images"
    THEN (IF IsLocal(t) THEN {t.file} ELSE {})
    ELSE (IF t.form \in {"local", "redirect_local"} THEN {panopto_filename(t.n)} ELSE {})

\* C21: in a run of download_images or download_panopto_videos, every local
\* path of a document the run has written resolves, from the directory of that
\* document, to a file on the disk, whatever the directories of the documents
\* that refer to the asset.
C21_LocalPathsResolve ==
    script \in {"download_images", Panopto} =>
        \A f \in written : \A i \in DOMAIN tree[f] : \A file \in LocalFileOf(tree[f][i]) :
            Exists(disk, dirOf[f], file)

\* A download script for Google Drive and then update_video_links went through
\* the whole tree, every transfer delivered its video, and no two documents
\* share a directory.
DriveThenUpdateDone ==
    /\ script = Update /\ pc = "done"
    /\ ran \in {{Gdown, Update}, {Plain, Update}}
    /\ ~failed
    /\ \A f, g \in Files : f # g => dirOf[f] # dirOf[g]

\* C22: the path videos/video_i.mp4 that update_video_links wrote for a Google
\* Drive file id of a document is, in the folder of that document, the file in
\* which the download script stored that id.
C22_UpdateIndexIsDownloadIndex ==
    DriveThenUpdateDone =>
        \A f \in Files : \A i \in DOMAIN tree0[f] :
            (tree0[f][i].form \in {"full_url", "open_url"} /\ tree[f][i].form = "local") =>
                \E x \in disk : /\ x.dir = dirOf[f]
                                 /\ x.file = video_filename(tree[f][i].stem, tree[f][i].n)
                                 /\ x.asset = tree0[f][i].id

\* C23: in the first run of download_youtube_videos or download_videos_gdown
\* on a tree, when the fetch of an identifier returns success for a file path,
\* the file at that path holds the video of that identifier and of no other,
\* also when two documents of one directory refer to different videos.
C23_OnePathPerIdentifier ==
    [][(/\ script \in {YouTube, Gdown} /\ pc = "download" /\ ran = {}
        /\ last'.called /\ last'.result) =>
          \A x \in disk' :
              (/\ x.dir = dirOf[CurrentFile]
               /\ x.file = video_filename(IF script = YouTube THEN "youtube" ELSE "video",
                                          locals.i)) =>
                  x.asset = locals.ids[locals.i]]_vars

(* ------------------- claims on the mapping of a run -------------------- *)

\* download_images, download_panopto_videos or download_youtube_videos is
\* started.
InitMapped == InitImages \/ InitPanopto \/ InitVideosWith({YouTube}, {AllRw})

NextMapped ==
    \/ NextImages \/ NextPanopto
    \/ ScanVideos \/ Prompt \/ BeginFile \/ DownloadYouTubeVideo \/ ReplaceYouTube
    \/ RunVideoScript

SpecMapped == InitMapped /\ [][NextMapped]_vars

\* The mapping the running script hands to its rewriter.
RunMapping ==
    CASE script = Panopto -> locals.video_mapping
      [] script = YouTube -> locals.video_id_mapping
      [] OTHER -> locals.image_mapping

\* The identity and the local file of an entry of the mapping.
EntryIdentity(e) == IF script = "download_images" THEN e.url ELSE e.id

EntryFile(e) == IF script = "download_images" THEN e.file ELSE e.n

\* The local file a link of a document points at.
LinkFile(t) == IF script = "download_images" THEN t.file ELSE t.n

\* A step in which a fetch was called, and a step in which the rewriter was.
FetchStep ==
    /\ pc = "fetch" \/ (script = YouTube /\ pc = "download")
    /\ calls' # calls

RewriteStep == pc = "rewrite" \/ (script = YouTube /\ pc = "replace")

\* C24: the mapping handed to the rewriter holds exactly the identities whose
\* fetch returned success in this run, in download_images,
\* download_panopto_videos and download_youtube_videos: a fetch that returned
\* success adds its identity, a fetch that returned failure adds nothing, the
\* downloaded count is the size of the mapping, and a rewrite puts into a
\* document only local files of the mapping.
C24_MappingIsWhatWasFetched ==
    /\ [](locals.downloaded = Len(RunMapping))
    /\ [][FetchStep =>
             IF last'.result
             THEN /\ Len(RunMapping') = Len(RunMapping) + 1
                  /\ SubSeq(RunMapping', 1, Len(RunMapping)) = RunMapping
                  /\ EntryIdentity(RunMapping'[Len(RunMapping')]) = calls'[Len(calls')]
             ELSE RunMapping' = RunMapping]_vars
    /\ [][RewriteStep =>
             \A f \in Files : \A i \in DOMAIN tree'[f] :
                 tree'[f][i] # tree[f][i] =>
                     \E k \in DOMAIN RunMapping : EntryFile(RunMapping[k]) = LinkFile(tree'[f][i])]_vars

\* C24 witness: download_youtube_videos has ended on a document with two
\* videos, the fetch of one failed, the other is the one entry of the mapping
\* and the document was rewritten with it.
C24_Witness ==
    /\ script = YouTube /\ pc = "done"
    /\ failed
    /\ Len(locals.ids) = 2
    /\ Len(locals.video_id_mapping) = 1 /\ locals.downloaded = 1
    /\ written # {}

(* ---------------------- claims on failed fetches ----------------------- *)

\* C25: when download_video, download_youtube_video or download_file returns
\* failure, no file is at the destination path of the call afterwards.
C25_FailedFetchLeavesNoFile ==
    [][(/\ script \in DownloadScripts /\ pc = "download" /\ calls' # calls
        /\ ~last'.result) =>
          ~Exists(disk', dirOf[CurrentFile],
                  video_filename(IF script = YouTube THEN "youtube" ELSE "video", locals.i))]_vars

(* ------------------------ claims on the prompt ------------------------- *)

\* A download script is before the answer to its prompt.
BeforeAnswer == script \in DownloadScripts /\ pc \in {"scan", "prompt"}

\* C26: in download_videos, download_videos_gdown and download_youtube_videos
\* nothing is downloaded and no document is modified before the prompt is
\* answered, and an answer other than 'y' ends the run with the tree and the
\* disk as they were.
C26_ConfirmationGate ==
    /\ [](BeforeAnswer => calls = <<>> /\ written = {})
    /\ [][BeforeAnswer => tree' = tree /\ disk' = disk]_vars
    /\ [][(BeforeAnswer /\ pc = "prompt" /\ locals'.response # "y") =>
             pc' = "done"]_vars
    /\ []((script \in DownloadScripts /\ ~BeforeAnswer /\ locals.response # "y") =>
             (pc = "done" /\ calls = <<>> /\ written = {}))

\* C26 witness: a download script found videos, the answer was not 'y', and
\* the run is over with no call of a fetch and no document written.
C26_Witness ==
    /\ script \in DownloadScripts /\ pc = "done"
    /\ locals.found # <<>>
    /\ locals.response = "n"
    /\ calls = <<>> /\ written = {}

(* ----------------------------- fix_all_html.py ------------------------- *)

\* The longest document handed to process_html_file of fix_all_html, and the
\* number of times the script is run on it.
MaxHeadLen == 4

MaxRuns == 3

\* What a document is made of, as far as process_html_file looks at it: the
\* tags it searches for, a script element, and any other text.
FixTokens == {"<head>", "</head>", "</style>", "<script>", "text"}

\* The script element that is inserted; it holds 'REDIRECT BLOCKER ACTIVE'.
REDIRECT_BLOCKER == "REDIRECT_BLOCKER"

\* '\n    <!--SCRIPTS DISABLED TO PREVENT REDIRECT-->\n    <!--\n    '
COMMENT_START == "<!--SCRIPTS DISABLED--><!--"

\* '    END DISABLED SCRIPTS-->\n  '
COMMENT_END == "END DISABLED SCRIPTS-->"

\* The tokens in which the text '<script' occurs.
ScriptTokens == {"<script>", REDIRECT_BLOCKER}

\* str.find and str.rfind over tokens: the first or last place from place
\* start on that holds one of toks, 0 where Python gives -1.
find(content, toks, start) ==
    LET hits == {i \in start..Len(content) : content[i] \in toks}
    IN  IF hits = {} THEN 0 ELSE CHOOSE i \in hits : \A j \in hits : i <= j

rfind(content, toks) ==
    LET hits == {i \in DOMAIN content : content[i] \in toks}
    IN  IF hits = {} THEN 0 ELSE CHOOSE i \in hits : \A j \in hits : j <= i

\* content[:i] + tok + content[i:], with i the place of a token.
insert_before(content, i, tok) ==
    SubSeq(content, 1, i - 1) \o <<tok>> \o SubSeq(content, i, Len(content))

\* The comment start before the next script after the last </style> of the
\* head section, and the comment end before the first </head>.
disable_scripts(new_content, head_end) ==
    LET head_section == SubSeq(new_content, 1, head_end - 1)
        last_style_end == rfind(head_section, {"</style>"})
        next_script == IF last_style_end = 0 THEN 0
                       ELSE find(head_section, ScriptTokens, last_style_end + 1)
    IN  IF next_script # 0
        THEN LET opened == insert_before(new_content, next_script, COMMENT_START)
             IN  insert_before(opened, find(opened, {"</head>"}, 1), COMMENT_END)
        ELSE new_content

\* process_html_file without the test for 'REDIRECT BLOCKER ACTIVE'.
fix_process_without_marker_test(content) ==
    LET head == find(content, {"<head>"}, 1)
        new_content == insert_before(content, head + 1, REDIRECT_BLOCKER)
        head_end == find(new_content, {"</head>"}, 1)
    IN  IF head = 0 \/ head_end = 0
        THEN [content |-> content, returned |-> FALSE]
        ELSE [content |-> disable_scripts(new_content, head_end), returned |-> TRUE]

\* process_html_file of fix_all_html.py on a file with this content: what the
\* file holds afterwards and what is returned.
fix_process_html_file(content) ==
    LET head == find(content, {"<head>"}, 1)
        new_content == insert_before(content, head + 1, REDIRECT_BLOCKER)
        head_end == find(new_content, {"</head>"}, 1)
    IN  IF REDIRECT_BLOCKER \in Range(content) \/ head = 0 \/ head_end = 0
        THEN [content |-> content, returned |-> FALSE]
        ELSE [content |-> disable_scripts(new_content, head_end), returned |-> TRUE]

\* A file is given to fix_all_html.
InitFix ==
    /\ rewriter = "fix_all_html"
    /\ document \in SeqUpTo(FixTokens, MaxHeadLen)
    /\ mapping = <<>>
    /\ results = <<>>
    /\ tree = <<>> /\ tree0 = <<>> /\ dirOf = <<>> /\ disk = {}
    /\ base_dir = TRUE /\ perm = <<>> /\ written = {}
    /\ script = "none" /\ pc = "none" /\ locals = <<>> /\ calls = <<>>
    /\ last = <<>> /\ ran = {} /\ failed = FALSE

\* One run of the script over the file: document is the content of the file,
\* results lists what each run returned and left in the file.
FixFile ==
    /\ rewriter = "fix_all_html"
    /\ Len(results) < MaxRuns
    /\ LET out == fix_process_html_file(document) IN
       /\ document' = out.content
       /\ results' = Append(results, out)
    /\ UNCHANGED <<rewriter, mapping, runVars>>

NextFix == FixFile

SpecFix == InitFix /\ [][NextFix]_vars

\* C27: fix_all_html is idempotent: process_html_file modifies a file at most
\* once, writes nothing to a file that holds the marker of the blocker, and
\* after any number of runs the file is as the first run left it.
C27_FixIsIdempotent ==
    /\ [](\A j, k \in DOMAIN results : (results[j].returned /\ results[k].returned) => j = k)
    /\ [](\A k \in DOMAIN results : results[k].content = results[1].content)
    /\ [][(REDIRECT_BLOCKER \in Range(document)) => (document' = document)]_vars

\* C27 witness: a file was processed by the first run and left alone by two
\* more.
C27_Witness ==
    /\ Len(results) = 3
    /\ results[1].returned /\ ~results[2].returned /\ ~results[3].returned
    /\ document = results[1].content
    /\ COMMENT_START \in Range(document)

\* The places of a processed file that lie inside the comment block.
Disabled(content) ==
    {i \in DOMAIN content :
        \E a, b \in DOMAIN content :
            a < i /\ i < b /\ content[a] = COMMENT_START /\ content[b] = COMMENT_END}

Succeeded == results # <<>> /\ results[1].returned

\* C28: after process_html_file succeeded on a file, the injected blocker
\* lies outside the comment block.
C28_BlockerStaysActive ==
    Succeeded =>
        \A i \in DOMAIN document : document[i] = REDIRECT_BLOCKER => i \notin Disabled(document)

\* C29: after process_html_file succeeded on a file, every script element of
\* the head other than the blocker lies inside the comment block.
C29_HeadScriptsDisabled ==
    Succeeded =>
        LET head == find(document, {"<head>"}, 1)
            head_end == find(document, {"</head>"}, head)
        IN  \A i \in head..head_end : document[i] = "<script>" => i \in Disabled(document)

(* ------------- update_video_links.py: process_html_file --------------- *)

\* process_html_file of update_video_links.py on a file it can read and
\* write: what the file holds afterwards and what is returned.
update_process_html_file(content) ==
    IF ~has_drive_text(content)
    THEN [content |-> content, returned |-> 0]
    ELSE LET out == extract_and_replace_drive_links(content)
         IN  IF out.replacements > 0
             THEN [content |-> out.modified, returned |-> out.replacements]
             ELSE [content |-> content, returned |-> 0]

\* A document is given to process_html_file.
InitUpdateFile ==
    /\ rewriter = "update_video_links"
    /\ document \in SeqUpTo(DriveLinks, MaxDocLen)
    /\ mapping = <<>>
    /\ results = <<>>
    /\ tree = <<>> /\ tree0 = <<>> /\ dirOf = <<>> /\ disk = {}
    /\ base_dir = TRUE /\ perm = <<>> /\ written = {}
    /\ script = "none" /\ pc = "none" /\ locals = <<>> /\ calls = <<>>
    /\ last = <<>> /\ ran = {} /\ failed = FALSE

\* document stays the content before the call, results holds the outcome.
ProcessDriveFile ==
    /\ rewriter = "update_video_links"
    /\ results = <<>>
    /\ results' = <<update_process_html_file(document)>>
    /\ UNCHANGED <<rewriter, document, mapping, runVars>>

NextUpdateFile == ProcessDriveFile

SpecUpdateFile == InitUpdateFile /\ [][NextUpdateFile]_vars

\* C30: after process_html_file of update_video_links, every quoted URL of the
\* document that matches one of the five link patterns of
\* extract_and_replace_drive_links has been replaced by a local path.
C30_QuotedDriveLinksReplaced ==
    (rewriter = "update_video_links" /\ results # <<>>) =>
        \A i \in DOMAIN document :
            (document[i].quoted /\ \E k \in DOMAIN DrivePatterns :
                                       drive_pattern_finds(document[i], DrivePatterns[k])) =>
                results[1].content[i].form = "local"

=============================================================================
